---- MODULE Spec2Model ----
(***************************************************************************)
(* Model of the urnisa backend: the settings endpoints backed by the       *)
(* Setting collection (src/unnamed/part_000) and the Discord proxy         *)
(* endpoints in their three variants (src/unnamed/part_000 and the two     *)
(* programs of src/server.js).                                             *)
(*                                                                         *)
(* JavaScript values are modelled as follows.  An object is a record; a    *)
(* property that is absent (undefined) is a field that is not in the       *)
(* record's DOMAIN.  An array is a sequence.  A string that the code       *)
(* inspects character by character (trim, startsWith, parseInt, BigInt)    *)
(* is a sequence of one-character strings; every other string is a TLA+    *)
(* string.  A string built by concatenation or by a template literal is    *)
(* the sequence of its parts.  null is the record Null.                    *)
(***************************************************************************)
EXTENDS Integers, Sequences, FiniteSets, TLC

VARIABLES
    ADMIN_PASSWORD,     \* the configured admin secret
    readyState,         \* mongoose.connection.readyState
    store,              \* the Setting collection: key -> value, one document per key
    req,                \* the request the last answered handler served
    resp,               \* the response it sent: [route, status, body]
    log,                \* the failure that handler caught and logged, <<>> if none
    hist,               \* history: what that handler saw (see History)
    profileGet,         \* position of the GET /api/profile handler in flight
    lastWrite,          \* history: key -> value of the last write the store applied
    variant,            \* which of the three programs is running
    DISCORD_BOT_TOKEN,  \* the upstream credential as the program holds it
    upstream,           \* what the Discord API answers to the next request
    upstreamCalls       \* history: upstream requests the last handler issued

vars == <<ADMIN_PASSWORD, readyState, store, req, resp, log, hist, profileGet,
          lastWrite, variant, DISCORD_BOT_TOKEN, upstream, upstreamCalls>>

settingsVars == <<ADMIN_PASSWORD, readyState, store, profileGet, lastWrite>>
discordVars == <<variant, DISCORD_BOT_TOKEN, upstream>>

----------------------------------------------------------------------------
(* JavaScript values *)

Null == [null |-> TRUE]

\* the object {}
EmptyObj == [k \in {} |-> TRUE]

\* the object {name: v} if present, {} otherwise
Opt(present, name, v) == IF present THEN name :> v ELSE EmptyObj

Has(obj, name) == name \in DOMAIN obj

\* !!obj[name] for a property holding a string
TruthyStr(obj, name) == Has(obj, name) /\ obj[name] # ""

\* !!obj[name] for a property holding an array or an object (both always truthy)
TruthyObj(obj, name) == Has(obj, name)

SeqsUpTo(S, n) == UNION { [1..k -> S] : k \in 0..n }

----------------------------------------------------------------------------
(* Configuration and inputs *)

DEFAULT_SCHEDULE_URL == "https://cdn.discordapp.com/attachments/1338254150479118347/1439859590152978443/3_am_17.png"

\* process.env.ADMIN_PASSWORD: unset, or a string
EnvAdminPasswords == { EmptyObj, [v |-> ""], [v |-> "s3cret"] }

\* const ADMIN_PASSWORD = process.env.ADMIN_PASSWORD || "admin"
AdminPasswordOf(env) == IF TruthyStr(env, "v") THEN env.v ELSE "admin"

\* req.headers: the Authorization header is absent or a string
Headers == { EmptyObj } \cup { [authorization |-> a] : a \in {"admin", "s3cret"} }

Urls == {"u1", "u2"}
\* profile data is an opaque array of blocks
Datas == { <<>>, <<"b1">> }
Types == {"about", "credits", "other"}

\* req.body of POST /api/schedule, POST /api/profile, POST /api/verify
ScheduleBodies == { EmptyObj } \cup { [url |-> u] : u \in Urls \cup {""} }
ProfileBodies ==
    { Opt(ht, "type", t) @@ Opt(hd, "data", d) :
        ht \in BOOLEAN, t \in Types, hd \in BOOLEAN, d \in Datas }
VerifyBodies == { EmptyObj } \cup { [password |-> p] : p \in {"", "admin", "s3cret"} }

\* error.message of a failed store or upstream call
ErrMessages == {"ECONNRESET", "buffering timed out"}

----------------------------------------------------------------------------
(* The Setting collection *)

Keys == {"schedule_url", "profile_about", "profile_credits"}

\* Setting.findOne({ key }): the document, or null
findOne(st, key) == IF key \in DOMAIN st THEN [key |-> key, value |-> st[key]] ELSE Null

findOneAndUpdate_Merge(st, key, v) ==
    [k \in DOMAIN st \cup {key} |-> IF k \in DOMAIN st THEN st[k] ELSE v]

\* Setting.findOneAndUpdate({ key }, { value: v }, { upsert: true, new: true })
findOneAndUpdate(st, key, v) ==
    [k \in DOMAIN st \cup {key} |-> IF k = key THEN v ELSE st[k]]

\* The ways a store call made at readyState rs can end.  Connected, it answers or
\* throws.  Not connected, mongoose buffers it: it throws when the buffer times
\* out, and it answers only if the connection comes up meanwhile, which leaves
\* readyState at 1.
StoreOutcomes(rs) ==
    { [ok |-> FALSE, message |-> m, rs |-> rs] : m \in ErrMessages }
      \cup { [ok |-> TRUE, message |-> "", rs |-> 1] }

----------------------------------------------------------------------------
(* Responses *)

NoLog == <<>>

Respond(route, status, body) == [route |-> route, status |-> status, body |-> body]

Request(route, headers, body) == [route |-> route, headers |-> headers, body |-> body]

NoRequest == Request("none", EmptyObj, EmptyObj)
NoResponse == Respond("none", 0, EmptyObj)

\* What the formulas below need to know of the handler that answered last:
\* whether the connection was connected when it started, whether it called the
\* store, and for GET /api/profile whether the about document it read was still
\* the stored one when it answered.
History(rs, called, aboutFresh) ==
    [connected |-> rs = 1, called |-> called, aboutFresh |-> aboutFresh]

NoHistory == History(0, FALSE, TRUE)

----------------------------------------------------------------------------
(* Bounds of the model *)

\* longest discriminator string the upstream sends
MaxDiscLen == 2

\* most messages the upstream returns to one request (the code asks for limit=20)
MaxMsgs == 3

\* deepest chain of referenced_message the upstream nests in a message
MaxRefDepth == 2

----------------------------------------------------------------------------
(* Strings the code inspects: sequences of one-character strings *)

IsSpace(c) == c = " "

RECURSIVE trimStart(_)
trimStart(s) == IF s # <<>> /\ IsSpace(Head(s)) THEN trimStart(Tail(s)) ELSE s

RECURSIVE trimEnd(_)
trimEnd(s) ==
    IF s # <<>> /\ IsSpace(s[Len(s)]) THEN trimEnd(SubSeq(s, 1, Len(s) - 1)) ELSE s

\* String.prototype.trim
trim(s) == trimEnd(trimStart(s))

\* String.prototype.startsWith
startsWith(s, prefix) == Len(s) >= Len(prefix) /\ SubSeq(s, 1, Len(prefix)) = prefix

\* String.prototype.substring(n)
substring(s, n) == SubSeq(s, n + 1, Len(s))

Digits == {"0", "1", "2", "3", "4", "5", "6", "7", "8", "9"}

DigitValue(c) ==
    CASE c = "0" -> 0 [] c = "1" -> 1 [] c = "2" -> 2 [] c = "3" -> 3 [] c = "4" -> 4
      [] c = "5" -> 5 [] c = "6" -> 6 [] c = "7" -> 7 [] c = "8" -> 8 [] c = "9" -> 9

\* a JavaScript number: NaN, or an integer
NaN == [nan |-> TRUE, v |-> 0]
Num(n) == [nan |-> FALSE, v |-> n]

\* the value of the longest prefix of digits of s, read after the digits acc
RECURSIVE digitsPrefix(_, _)
digitsPrefix(s, acc) ==
    IF s # <<>> /\ Head(s) \in Digits
    THEN digitsPrefix(Tail(s), 10 * acc + DigitValue(Head(s)))
    ELSE acc

\* parseInt(s): leading white space, an optional sign, then the longest prefix
\* of decimal digits; NaN if there is no digit
parseInt(s) ==
    LET t == trimStart(s)
        neg == t # <<>> /\ Head(t) = "-"
        u == IF t # <<>> /\ Head(t) \in {"-", "+"} THEN Tail(t) ELSE t
    IN IF u = <<>> \/ Head(u) \notin Digits
       THEN NaN
       ELSE Num(IF neg THEN 0 - digitsPrefix(u, 0) ELSE digitsPrefix(u, 0))

\* BigInt(s) for a string of decimal digits
BigInt(s) == digitsPrefix(s, 0)

\* a % n for n > 0: the remainder takes the sign of the dividend
rem(a, n) ==
    IF a.nan THEN NaN
    ELSE IF a.v >= 0 THEN Num(a.v % n) ELSE Num(0 - ((0 - a.v) % n))

\* x >> 22n on a non-negative BigInt
shiftRight22(x) == x \div 4194304

----------------------------------------------------------------------------
(* Admin gate *)

Unauthorized_AbsentOnly(headers, secret) == ~TruthyStr(headers, "authorization")

\* !authHeader || authHeader !== ADMIN_PASSWORD
Unauthorized(headers, secret) ==
    ~TruthyStr(headers, "authorization") \/ headers.authorization # secret

verify_AnyPassword(body, secret) == TruthyStr(body, "password")

\* password && password === ADMIN_PASSWORD
verify(body, secret) == TruthyStr(body, "password") /\ body.password = secret

----------------------------------------------------------------------------
(* Settings handlers, as functions of the request, the state they read and the
   outcome o of the store call they make (when they make none, o is not read
   and the actions below take one o only).  Each
   yields the response, the store they leave, what they logged, and whether
   they called the store. *)

Result(route, status, body, st, lg, called) ==
    [resp |-> Respond(route, status, body), store |-> st, log |-> lg, called |-> called]

getSchedule_IgnoreState(rs, st, o) ==
    IF ~o.ok
    THEN Result("getSchedule", 200, [url |-> DEFAULT_SCHEDULE_URL], st, <<o.message>>, TRUE)
    ELSE IF findOne(st, "schedule_url") # Null
         THEN Result("getSchedule", 200, [url |-> st["schedule_url"]], st, NoLog, TRUE)
         ELSE Result("getSchedule", 200, [url |-> DEFAULT_SCHEDULE_URL], st, NoLog, TRUE)

\* app.get('/api/schedule')
getSchedule(rs, st, o) ==
    IF rs = 1
    THEN IF ~o.ok
         THEN Result("getSchedule", 200, [url |-> DEFAULT_SCHEDULE_URL], st, <<o.message>>, TRUE)
         ELSE LET setting == findOne(st, "schedule_url") IN
              IF setting # Null /\ TruthyStr(setting, "value")
              THEN Result("getSchedule", 200, [url |-> setting.value], st, NoLog, TRUE)
              ELSE Result("getSchedule", 200, [url |-> DEFAULT_SCHEDULE_URL], st, NoLog, TRUE)
    ELSE Result("getSchedule", 200, [url |-> DEFAULT_SCHEDULE_URL], st, NoLog, FALSE)

\* app.post('/api/schedule')
postSchedule(headers, body, secret, rs, st, o) ==
    IF Unauthorized(headers, secret)
    THEN Result("postSchedule", 401, [error |-> <<"Unauthorized: Incorrect Password">>],
                st, NoLog, FALSE)
    ELSE IF ~TruthyStr(body, "url")
    THEN Result("postSchedule", 400, [error |-> <<"Missing URL">>], st, NoLog, FALSE)
    ELSE IF rs # 1
    THEN Result("postSchedule", 503,
                [error |-> <<"Database not connected. Please check Render logs.">>],
                st, NoLog, FALSE)
    ELSE IF o.ok
    THEN Result("postSchedule", 200, [success |-> TRUE, url |-> body.url],
                findOneAndUpdate(st, "schedule_url", body.url), NoLog, TRUE)
    ELSE Result("postSchedule", 500,
                [error |-> <<"Failed to update database: ", o.message>>],
                st, <<o.message>>, TRUE)

profileKey_CreditsOnly(type) ==
    IF type = "credits" THEN "profile_credits" ELSE "profile_about"

\* const key = type === 'about' ? 'profile_about' : 'profile_credits'
profileKey(type) == IF type = "about" THEN "profile_about" ELSE "profile_credits"

\* app.post('/api/profile')
postProfile(headers, body, secret, rs, st, o) ==
    IF Unauthorized(headers, secret)
    THEN Result("postProfile", 401, [error |-> <<"Unauthorized">>], st, NoLog, FALSE)
    ELSE IF ~TruthyStr(body, "type") \/ ~TruthyObj(body, "data")
    THEN Result("postProfile", 400, [error |-> <<"Missing type or data">>], st, NoLog, FALSE)
    ELSE IF o.ok
    THEN Result("postProfile", 200, [success |-> TRUE],
                findOneAndUpdate(st, profileKey(body.type), body.data), NoLog, TRUE)
    ELSE Result("postProfile", 500, [error |-> <<"Failed to update database">>],
                st, <<o.message>>, TRUE)

\* about ? about.value : []
valueOrEmpty(doc) == IF doc # Null THEN doc.value ELSE <<>>

\* app.get('/api/profile'), once both lookups have answered
getProfileBody(about, credits) ==
    [about |-> valueOrEmpty(about), credits |-> valueOrEmpty(credits)]

\* app.get('/api/profile'), its catch block
getProfileFallback == [about |-> <<>>, credits |-> <<>>]

----------------------------------------------------------------------------
(* The settings program: src/unnamed/part_000, lines 1-166 *)

Idle == [pc |-> "idle"]

InitSettings ==
    /\ \E env \in EnvAdminPasswords : ADMIN_PASSWORD = AdminPasswordOf(env)
    /\ readyState = 2
    /\ store = EmptyObj
    /\ lastWrite = EmptyObj
    /\ profileGet = Idle
    /\ req = NoRequest
    /\ resp = NoResponse
    /\ log = NoLog
    /\ hist = NoHistory
    /\ variant = "full"
    /\ DISCORD_BOT_TOKEN = <<>>
    /\ upstream = EmptyObj
    /\ upstreamCalls = 0

\* mongoose.connection emits 'connected' or 'disconnected'
ConnectionEvent ==
    /\ \E rs \in {0, 1} : readyState' = rs
    /\ UNCHANGED <<ADMIN_PASSWORD, store, lastWrite, profileGet,
                   req, resp, log, hist, variant, DISCORD_BOT_TOKEN, upstream, upstreamCalls>>

\* the write a successful POST applied, recorded in the history
Written(lw, key, v) == [k \in DOMAIN lw \cup {key} |-> IF k = key THEN v ELSE lw[k]]

Verify ==
    /\ \E body \in VerifyBodies :
         /\ req' = Request("verify", EmptyObj, body)
         /\ resp' = IF verify(body, ADMIN_PASSWORD)
                    THEN Respond("verify", 200, [success |-> TRUE])
                    ELSE Respond("verify", 401, [error |-> <<"Invalid password">>])
    /\ log' = NoLog
    /\ hist' = History(readyState, FALSE, TRUE)
    /\ UNCHANGED <<settingsVars, discordVars, upstreamCalls>>

GetSchedule ==
    /\ \E o \in StoreOutcomes(readyState) :
         LET r == getSchedule(readyState, store, o) IN
           /\ r.called \/ o.ok
           /\ req' = Request("getSchedule", EmptyObj, EmptyObj)
           /\ resp' = r.resp
           /\ log' = r.log
           /\ hist' = History(readyState, r.called, TRUE)
           /\ store' = r.store
           /\ readyState' = IF r.called THEN o.rs ELSE readyState
    /\ UNCHANGED <<ADMIN_PASSWORD, lastWrite, profileGet, discordVars, upstreamCalls>>

PostSchedule ==
    /\ \E headers \in Headers, body \in ScheduleBodies, o \in StoreOutcomes(readyState) :
         LET r == postSchedule(headers, body, ADMIN_PASSWORD, readyState, store, o) IN
           /\ r.called \/ o.ok
           /\ req' = Request("postSchedule", headers, body)
           /\ resp' = r.resp
           /\ log' = r.log
           /\ hist' = History(readyState, r.called, TRUE)
           /\ store' = r.store
           /\ readyState' = IF r.called THEN o.rs ELSE readyState
           /\ lastWrite' = IF r.called /\ o.ok
                           THEN Written(lastWrite, "schedule_url", body.url)
                           ELSE lastWrite
    /\ UNCHANGED <<ADMIN_PASSWORD, profileGet, discordVars, upstreamCalls>>

PostProfile ==
    /\ \E headers \in Headers, body \in ProfileBodies, o \in StoreOutcomes(readyState) :
         LET r == postProfile(headers, body, ADMIN_PASSWORD, readyState, store, o)
             wrote == r.called /\ o.ok
         IN
           /\ r.called \/ o.ok
           /\ req' = Request("postProfile", headers, body)
           /\ resp' = r.resp
           /\ log' = r.log
           /\ hist' = History(readyState, r.called, TRUE)
           /\ store' = r.store
           /\ readyState' = IF r.called THEN o.rs ELSE readyState
           /\ lastWrite' = IF wrote
                           THEN Written(lastWrite, profileKey(body.type), body.data)
                           ELSE lastWrite
           /\ profileGet' = IF wrote /\ profileGet.pc = "credits" /\ body.type = "about"
                            THEN [profileGet EXCEPT !.fresh = FALSE]
                            ELSE profileGet
    /\ UNCHANGED <<ADMIN_PASSWORD, discordVars, upstreamCalls>>

\* app.get('/api/profile') up to the answer of its first lookup
GetProfileAbout ==
    /\ profileGet.pc = "idle"
    /\ \E o \in StoreOutcomes(readyState) :
         /\ readyState' = o.rs
         /\ IF o.ok
            THEN /\ profileGet' = [pc |-> "credits",
                                   about |-> findOne(store, "profile_about"), fresh |-> TRUE]
                 /\ UNCHANGED <<req, resp, log, hist>>
            ELSE /\ profileGet' = Idle
                 /\ req' = Request("getProfile", EmptyObj, EmptyObj)
                 /\ resp' = Respond("getProfile", 200, getProfileFallback)
                 /\ log' = <<o.message>>
                 /\ hist' = History(readyState, TRUE, TRUE)
    /\ UNCHANGED <<ADMIN_PASSWORD, store, lastWrite, discordVars, upstreamCalls>>

\* app.get('/api/profile') from its second lookup to the response
GetProfileCredits ==
    /\ profileGet.pc = "credits"
    /\ \E o \in StoreOutcomes(readyState) :
         /\ readyState' = o.rs
         /\ req' = Request("getProfile", EmptyObj, EmptyObj)
         /\ resp' = Respond("getProfile", 200,
                            IF o.ok
                            THEN getProfileBody(profileGet.about, findOne(store, "profile_credits"))
                            ELSE getProfileFallback)
         /\ log' = IF o.ok THEN NoLog ELSE <<o.message>>
         /\ hist' = History(readyState, TRUE, profileGet.fresh)
    /\ profileGet' = Idle
    /\ UNCHANGED <<ADMIN_PASSWORD, store, lastWrite, discordVars, upstreamCalls>>

NextSettings ==
    \/ ConnectionEvent
    \/ Verify
    \/ GetSchedule
    \/ PostSchedule
    \/ PostProfile
    \/ GetProfileAbout
    \/ GetProfileCredits

SpecSettings == InitSettings /\ [][NextSettings]_vars

----------------------------------------------------------------------------
(* Properties of the settings program *)

WriteRoutes == {"postSchedule", "postProfile"}

\* the Authorization header of request r is absent or differs from the secret
BadSecret(r) == ~Has(r.headers, "authorization") \/ r.headers.authorization # ADMIN_PASSWORD

\* request r carries what its route requires
WellFormed(r) ==
    IF r.route = "postSchedule"
    THEN Has(r.body, "url") /\ r.body.url # ""
    ELSE Has(r.body, "type") /\ Has(r.body, "data")

\* C1: a POST /api/schedule or POST /api/profile whose Authorization header is
\* absent or differs from the admin secret is answered 401 and changes no
\* Setting, whatever its body and whatever the connection state.
C1_UnauthorizedWriteRejected ==
    [][ (req'.route \in WriteRoutes /\ BadSecret(req'))
          => (resp'.status = 401 /\ store' = store) ]_vars

C1_Witness ==
    /\ req.route = "postProfile"
    /\ Has(req.headers, "authorization") /\ req.headers.authorization # ADMIN_PASSWORD
    /\ WellFormed(req)
    /\ hist.connected
    /\ resp.status = 401
    /\ Has(store, "profile_about")

C3_ScheduleReadFallsBack ==
    resp.route = "getSchedule"
      => /\ resp.status = 200
         /\ DOMAIN resp.body = {"url"}
         /\ resp.body.url = IF hist.connected /\ log = NoLog /\ Has(store, "schedule_url")
                            THEN store["schedule_url"]
                            ELSE DEFAULT_SCHEDULE_URL

C3_Witness ==
    /\ resp.route = "getSchedule"
    /\ ~hist.connected
    /\ Has(store, "schedule_url")
    /\ resp.body.url = DEFAULT_SCHEDULE_URL

\* C4: an authorized, well-formed POST /api/schedule or POST /api/profile made
\* while the connection is not connected is answered 503 without a store call.
C4_UnavailableWriteIs503 ==
    (resp.route \in WriteRoutes /\ ~BadSecret(req) /\ WellFormed(req) /\ ~hist.connected)
      => (resp.status = 503 /\ ~hist.called)

\* C5: the payload answering a caught store failure carries none of the
\* failure's diagnostic detail, so that two failures differing only in their
\* detail are answered identically.
C5_NoDetailInPayload ==
    (log # NoLog /\ Has(resp.body, "error"))
      => \A i \in DOMAIN resp.body.error : resp.body.error[i] \notin ErrMessages

\* C9: POST /api/verify answers {success: true} exactly when the supplied
\* password equals the configured admin secret and 401 otherwise; an absent or
\* empty password is never accepted, and the configured secret is never empty.
C9_VerifyExactMatch ==
    /\ ADMIN_PASSWORD # ""
    /\ resp.route = "verify"
         => /\ resp.status \in {200, 401}
            /\ resp.status = 200
                 <=> (Has(req.body, "password") /\ req.body.password = ADMIN_PASSWORD)
            /\ resp.status = 200 => resp.body = [success |-> TRUE]
            /\ (~Has(req.body, "password") \/ req.body.password = "") => resp.status = 401

C9_Witness ==
    /\ resp.route = "verify"
    /\ ADMIN_PASSWORD = "admin"
    /\ req.body = [password |-> "admin"]
    /\ resp.status = 200

\* Setting k is the same before and after the step
SameSetting(k) ==
    /\ Has(store, k) <=> Has(store', k)
    /\ Has(store, k) => store'[k] = store[k]

\* C11: an authorized POST /api/profile with type and data present is not
\* rejected (no 400, no 401) whatever its type; it makes one store call, on
\* profile_about when type is "about" and on profile_credits for every other
\* type, which holds the posted data once the call has answered (200); every
\* other Setting is unchanged, and no POST /api/profile changes schedule_url.
C11_ProfileWritesOneKey ==
    [][ req'.route = "postProfile"
          => /\ SameSetting("schedule_url")
             /\ (~BadSecret(req') /\ WellFormed(req'))
                  => LET key == IF req'.body.type = "about"
                                THEN "profile_about" ELSE "profile_credits"
                     IN /\ resp'.status \in {200, 500}
                        /\ hist'.called
                        /\ \A k \in Keys \ {key} : SameSetting(k)
                        /\ resp'.status = 200
                             => (Has(store', key) /\ store'[key] = req'.body.data) ]_vars

C11_Witness ==
    /\ req.route = "postProfile"
    /\ ~BadSecret(req)
    /\ Has(req.body, "type") /\ req.body.type = "other"
    /\ Has(req.body, "data") /\ req.body.data = <<"b1">>
    /\ resp.status = 200
    /\ Has(store, "profile_credits") /\ store["profile_credits"] = <<"b1">>
    /\ Has(store, "profile_about") /\ store["profile_about"] = <<>>
    /\ Has(store, "schedule_url")

----------------------------------------------------------------------------
(* The Discord proxy: src/unnamed/part_000 lines 51-66 and 168-254 ("full"),
   src/server.js lines 1-184 ("proxy") and src/server.js lines 187-270
   ("legacy") *)

Variants == {"full", "proxy", "legacy"}

GUILD_ID == "1336782145833668729"
OWNER_ID == "433262414759198720"

\* !!obj[name] for a property holding an inspected string
TruthySeq(obj, name) == Has(obj, name) /\ obj[name] # <<>>

\* process.env.DISCORD_BOT_TOKEN: unset, or a string
EnvTokens == { EmptyObj } \cup { [v |-> t] : t \in { <<>>, <<" ">>, <<"x">>, <<"B", "o", "t", " ", "x">>, <<" ", "B", "o", "t", " ", " ", "x", " ">>, <<"B", "o", "t", " ">> } }

\* let DISCORD_BOT_TOKEN = env ? env.trim() : ""; strip a leading "Bot "
sanitize(env) ==
    LET t == IF TruthySeq(env, "v") THEN trim(env.v) ELSE <<>> IN
    IF startsWith(t, <<"B", "o", "t", " ">>) THEN trim(substring(t, 4)) ELSE t

\* DISCORD_BOT_TOKEN as each program computes it: sanitized, or (legacy) the raw
\* environment variable, which may be undefined
TokenOf(v, env) == IF v = "legacy" THEN env ELSE [v |-> sanitize(env)]

hasTokenCheck_None(v) == FALSE

\* whether the program's handlers start with if (!DISCORD_BOT_TOKEN) return 500
hasTokenCheck(v) == v # "legacy"

\* the Authorization header of the upstream request: `Bot ${DISCORD_BOT_TOKEN}`
authorizationOf(token) ==
    <<"Bot ", IF Has(token, "v") THEN token.v ELSE <<"u", "n", "d", "e", "f", "i", "n", "e", "d">> >>

\* user.id: a snowflake in decimal
UserIds == { <<"0">>, <<"4", "1", "9", "4", "3", "0", "4">>, <<"2", "0", "9", "7", "1", "5", "2", "0">>, <<"2", "5", "1", "6", "5", "8", "2", "9">>, <<"2", "1", "4", "7", "4", "8", "3", "6", "4", "7">> }

DiscChars == {"0", "3", "7", "-", "a"}

\* user.discriminator
Discriminators == SeqsUpTo(DiscChars, MaxDiscLen) \ { <<>> }

\* the guild member the upstream returns; a null property is an absent one
Members ==
    { [user |-> [id |-> i, username |-> "urnisa", global_name |-> "Urnisa",
                 discriminator |-> d, public_flags |-> "64"] @@ Opt(ua, "avatar", "ua"),
       joined_at |-> "2025-02-05"]
        @@ Opt(ga, "avatar", "ga") @@ Opt(hn, "nick", "Nisa") :
        i \in UserIds, d \in Discriminators, ua \in BOOLEAN, ga \in BOOLEAN, hn \in BOOLEAN }

\* how an upstream request fails: error.response.status, or error.message
UpstreamFailures == { [ok |-> FALSE, detail |-> d] : d \in {"401", "403"} \cup ErrMessages }

NoUpstream == [ok |-> FALSE, detail |-> "not requested"]

OwnerAnswers == UpstreamFailures \cup { [ok |-> TRUE, data |-> m] : m \in Members }

defaultIndex_Swapped(user) ==
    IF user.discriminator = <<"0">>
    THEN rem(Num(shiftRight22(BigInt(user.id))), 5)
    ELSE rem(parseInt(user.discriminator), 6)

\* user.discriminator === '0' ? (BigInt(user.id) >> 22n) % 6n
\*                            : parseInt(user.discriminator) % 5
defaultIndex(user) ==
    IF user.discriminator = <<"0">>
    THEN rem(Num(shiftRight22(BigInt(user.id))), 6)
    ELSE rem(parseInt(user.discriminator), 5)

\* the avatar URL of a guild member; kind names the template literal used
avatarUrl(guildId, member) ==
    IF TruthyStr(member, "avatar")
    THEN [kind |-> "guild", guild |-> guildId, user |-> member.user.id, hash |-> member.avatar]
    ELSE IF TruthyStr(member.user, "avatar")
    THEN [kind |-> "global", user |-> member.user.id, hash |-> member.user.avatar]
    ELSE [kind |-> "embed", index |-> defaultIndex(member.user)]

\* the body of the owner response
ownerData(member) ==
    [id |-> member.user.id, username |-> member.user.username,
     global_name |-> member.user.global_name, discriminator |-> member.user.discriminator,
     avatar_url |-> avatarUrl(GUILD_ID, member), status |-> "offline"]
      @@ Opt(Has(member, "nick"), "nick", IF Has(member, "nick") THEN member.nick ELSE "")

\* what a Discord handler yields: the response, the failure it caught and
\* logged, and the number of upstream requests it issued
Proxied(route, status, body, lg, calls) ==
    [resp |-> Respond(route, status, body), log |-> lg, calls |-> calls]

missingTokenError(v) ==
    IF v = "full" THEN <<"Missing Bot Token">>
    ELSE <<"Server configuration error: Missing Bot Token">>

\* app.get('/api/owner'); up is what the upstream answers if it is asked
getOwner(v, token, up) ==
    IF hasTokenCheck(v) /\ ~TruthySeq(token, "v")
    THEN Proxied("getOwner", 500, [error |-> missingTokenError(v)], NoLog, 0)
    ELSE IF ~up.ok
    THEN Proxied("getOwner", 500, [error |-> <<"Failed to fetch Discord data">>],
                 <<up.detail>>, 1)
    ELSE Proxied("getOwner", 200, ownerData(up.data), NoLog, 1)

----------------------------------------------------------------------------
(* Messages *)

\* msg.author as the upstream sends it
Author(n) ==
    [id |-> n, username |-> "user", global_name |-> "User", avatar |-> "ah",
     discriminator |-> "0", public_flags |-> "0"]

\* the messages a message can reference, nested at most d deep
RECURSIVE RefMsgs(_)
RefMsgs(d) ==
    IF d = 0 THEN {}
    ELSE { [id |-> "r", author |-> Author("a2"), content |-> "hi", timestamp |-> "t0"]
             @@ Opt(hm, "mentions", << Author("a1") >>)
             @@ Opt(hr, "referenced_message", r) :
             hm \in BOOLEAN, hr \in BOOLEAN,
             r \in IF d = 1 THEN { EmptyObj } ELSE RefMsgs(d - 1) }

Reaction == [emoji |-> [id |-> "e1", name |-> "heart"], count |-> 2, me |-> FALSE,
             burst_colors |-> <<>>]

MsgIds == {"m1", "m2", "m3"}

\* a message with none of its optional properties
PlainMsg(id) ==
    [id |-> id, content |-> "hello", timestamp |-> "t1", author |-> Author("a1"),
     channel_id |-> "c1", pinned |-> FALSE]

\* messages with every combination of optional properties
RichMsgs ==
    { PlainMsg("m1")
        @@ Opt(hb, "member", [nick |-> "Nick", avatar |-> "mh", roles |-> <<>>])
        @@ Opt(ha, "attachments", << [id |-> "f1", url |-> "f1.png"] >>)
        @@ Opt(hs, "sticker_items", << [id |-> "s1"] >>)
        @@ Opt(hm, "mentions", << Author("a2") >>)
        @@ Opt(hr, "reactions", << Reaction >>)
        @@ Opt(hf, "referenced_message", r) :
        hb \in BOOLEAN, ha \in BOOLEAN, hs \in BOOLEAN, hm \in BOOLEAN, hr \in BOOLEAN,
        hf \in BOOLEAN, r \in RefMsgs(MaxRefDepth) }

\* response.data of the messages request: up to MaxMsgs plain messages in any
\* order, or one message with any combination of optional properties
MessageLists ==
    SeqsUpTo({ PlainMsg(id) : id \in MsgIds }, MaxMsgs) \cup { <<m>> : m \in RichMsgs }

MessagesAnswers == UpstreamFailures \cup { [ok |-> TRUE, data |-> l] : l \in MessageLists }

\* req.query
Queries == { EmptyObj, [channelId |-> ""], [channelId |-> "c1"] }

normalizeAuthor(a) ==
    [id |-> a.id, username |-> a.username, global_name |-> a.global_name,
     avatar |-> a.avatar, discriminator |-> a.discriminator]

orEmpty(obj, name) == IF TruthyObj(obj, name) THEN obj[name] ELSE <<>>

normalizeReference_Whole(ref) == ref

\* the projection of msg.referenced_message
normalizeReference(ref) ==
    [id |-> ref.id, author |-> normalizeAuthor(ref.author), content |-> ref.content,
     mentions |-> orEmpty(ref, "mentions")]

\* the function response.data is mapped with
normalizeMessage(msg) ==
    [id |-> msg.id,
     content |-> msg.content,
     timestamp |-> msg.timestamp,
     author |-> normalizeAuthor(msg.author),
     member |-> IF TruthyObj(msg, "member")
                THEN [nick |-> msg.member.nick, avatar |-> msg.member.avatar]
                ELSE Null,
     attachments |-> orEmpty(msg, "attachments"),
     sticker_items |-> orEmpty(msg, "sticker_items"),
     mentions |-> orEmpty(msg, "mentions"),
     reactions |-> IF TruthyObj(msg, "reactions")
                   THEN [i \in DOMAIN msg.reactions |->
                           [emoji |-> msg.reactions[i].emoji,
                            count |-> msg.reactions[i].count,
                            me |-> msg.reactions[i].me]]
                   ELSE <<>>,
     referenced_message |-> IF TruthyObj(msg, "referenced_message")
                            THEN normalizeReference(msg.referenced_message)
                            ELSE Null]

\* Array.prototype.map
map(list) == [i \in DOMAIN list |-> normalizeMessage(list[i])]

reverse_Identity(list) == list

\* Array.prototype.reverse
reverse(list) == [i \in DOMAIN list |-> list[Len(list) + 1 - i]]

\* app.get('/api/messages'); up is what the upstream answers if it is asked
getMessages(v, token, query, up) ==
    IF ~TruthyStr(query, "channelId")
    THEN Proxied("getMessages", 400,
                 [error |-> IF v = "full" THEN <<"Missing channelId">>
                            ELSE <<"Missing channelId parameter">>], NoLog, 0)
    ELSE IF ~TruthySeq(token, "v")
    THEN Proxied("getMessages", 500, [error |-> missingTokenError(v)], NoLog, 0)
    ELSE IF ~up.ok
    THEN Proxied("getMessages", 500, [error |-> <<"Failed to fetch messages">>],
                 <<up.detail>>, 1)
    ELSE Proxied("getMessages", 200, reverse(map(up.data)), NoLog, 1)

----------------------------------------------------------------------------
(* The Discord programs *)

InitDiscord ==
    /\ variant \in Variants
    /\ \E env \in EnvTokens : DISCORD_BOT_TOKEN = TokenOf(variant, env)
    /\ upstream = NoUpstream
    /\ upstreamCalls = 0
    /\ req = NoRequest
    /\ resp = NoResponse
    /\ log = NoLog
    /\ hist = NoHistory
    /\ ADMIN_PASSWORD = "admin"
    /\ readyState = 0
    /\ store = EmptyObj
    /\ lastWrite = EmptyObj
    /\ profileGet = Idle

\* one request is followed to its response
Serve(route, query, r, up) ==
    /\ req' = Request(route, EmptyObj, query)
    /\ resp' = r.resp
    /\ log' = r.log
    /\ upstreamCalls' = r.calls
    /\ upstream' = IF r.calls = 0 THEN NoUpstream ELSE up
    /\ UNCHANGED <<settingsVars, variant, DISCORD_BOT_TOKEN, hist>>

GetOwner ==
    /\ resp = NoResponse
    /\ \E up \in OwnerAnswers :
         LET r == getOwner(variant, DISCORD_BOT_TOKEN, up) IN
           /\ r.calls = 0 => up \in UpstreamFailures
           /\ Serve("getOwner", EmptyObj, r, up)

GetMessages ==
    /\ resp = NoResponse
    /\ variant # "legacy"
    /\ \E query \in Queries, up \in MessagesAnswers :
         LET r == getMessages(variant, DISCORD_BOT_TOKEN, query, up) IN
           /\ r.calls = 0 => up \in UpstreamFailures
           /\ Serve("getMessages", query, r, up)

NextDiscord ==
    \/ GetOwner
    \/ GetMessages

SpecDiscord == InitDiscord /\ [][NextDiscord]_vars

----------------------------------------------------------------------------
(* Properties of the Discord programs *)

\* no upstream credential is configured
NoCredential == ~Has(DISCORD_BOT_TOKEN, "v") \/ DISCORD_BOT_TOKEN.v = <<>>

MissingChannel == ~Has(req.body, "channelId") \/ req.body.channelId = ""

\* what C6 says of the handlers of the programs in vs
CredentialChecked(vs) ==
    /\ (variant \in vs /\ resp.route = "getOwner" /\ NoCredential)
         => (resp.status = 500 /\ upstreamCalls = 0)
    /\ (variant \in vs /\ resp.route = "getMessages" /\ NoCredential /\ ~MissingChannel)
         => (resp.status = 500 /\ upstreamCalls = 0)
    /\ (variant \in vs /\ resp.route = "getMessages" /\ MissingChannel)
         => (resp.status = 400 /\ upstreamCalls = 0)

\* C6 as stated: in every variant of the handlers, with no credential
\* configured GET /api/owner and GET /api/messages answer 500 without an upstream
\* request, and a missing channelId is answered 400 first.
C6_EveryVariantChecksCredential == CredentialChecked(Variants)

\* C6, amended: that holds of part_000 and of the first program of server.js;
\* the GET /api/owner of the second program of server.js has no credential
\* check, issues the upstream request whatever the credential, and answers 500
\* exactly when that request fails.
C6_CheckedVariantsOnly ==
    /\ CredentialChecked({"full", "proxy"})
    /\ (variant = "legacy" /\ resp.route = "getOwner")
         => (upstreamCalls = 1 /\ (resp.status = 500 <=> ~upstream.ok))

C6_Witness ==
    /\ variant = "proxy"
    /\ NoCredential
    /\ resp.route = "getMessages"
    /\ ~MissingChannel
    /\ resp.status = 500
    /\ upstreamCalls = 0

\* the three branches of avatar resolution in their priority; Index(user, index)
\* is what is said of the default-avatar index
AvatarBranches(Index(_, _)) ==
    (resp.route = "getOwner" /\ resp.status = 200)
      => LET member == upstream.data
             url == resp.body.avatar_url
         IN IF Has(member, "avatar")
            THEN url = [kind |-> "guild", guild |-> GUILD_ID, user |-> member.user.id,
                        hash |-> member.avatar]
            ELSE IF Has(member.user, "avatar")
            THEN url = [kind |-> "global", user |-> member.user.id,
                        hash |-> member.user.avatar]
            ELSE /\ url.kind = "embed"
                 /\ DOMAIN url = {"kind", "index"}
                 /\ IF member.user.discriminator = <<"0">>
                    THEN /\ url.index = Num((BigInt(member.user.id) \div 4194304) % 6)
                         /\ url.index.v \in 0..5
                    ELSE Index(member.user, url.index)

\* the index is value mod 5, in 0..4, for every discriminator that parses
IndexOfAnyInteger(user, index) ==
    LET value == parseInt(user.discriminator) IN
    ~value.nan => (index = Num(value.v % 5) /\ index.v \in 0..4)

\* the same for a value >= 0; for a value < 0 the remainder keeps the sign
IndexOfSignedInteger(user, index) ==
    LET value == parseInt(user.discriminator) IN
    /\ (~value.nan /\ value.v >= 0) => (index = Num(value.v % 5) /\ index.v \in 0..4)
    /\ (~value.nan /\ value.v < 0)
         => (index = Num(0 - ((0 - value.v) % 5)) /\ index.v \in (0 - 4)..0)

\* C7 as stated: exactly one of three branches fires, guild avatar, else global
\* avatar, else the default index, which is (id >> 22) mod 6 in 0..5 for
\* discriminator "0" and value mod 5 in 0..4 for any other discriminator that
\* parses as an integer.
C7_AvatarResolution == AvatarBranches(IndexOfAnyInteger)

\* C7, amended: the same, with value mod 5 in 0..4 for a discriminator that
\* parses as a non-negative integer; for one that parses as a negative integer
\* the index is the remainder with the sign of the value, in -4..0.
C7_AvatarResolutionSigned == AvatarBranches(IndexOfSignedInteger)

C7_Witness ==
    /\ resp.route = "getOwner"
    /\ resp.status = 200
    /\ ~Has(upstream.data, "avatar")
    /\ ~Has(upstream.data.user, "avatar")
    /\ upstream.data.user.discriminator = <<"0">>
    /\ resp.body.avatar_url = [kind |-> "embed", index |-> Num(5)]

\* C8: the messages response is as long as the upstream list, its i-th element
\* is the normalization of the upstream element at the mirrored position, and
\* reversing it again gives the upstream order.
C8_ReversedOrder ==
    (resp.route = "getMessages" /\ resp.status = 200)
      => LET data == upstream.data
             out == resp.body
             n == Len(data)
         IN /\ Len(out) = n
            /\ \A i \in 1..n : out[i] = normalizeMessage(data[n + 1 - i])
            /\ [i \in 1..n |-> out[n + 1 - i].id] = [i \in 1..n |-> data[i].id]

C8_Witness ==
    /\ resp.route = "getMessages"
    /\ resp.status = 200
    /\ Len(upstream.data) = 3
    /\ upstream.data[1].id = "m1" /\ upstream.data[2].id = "m2" /\ upstream.data[3].id = "m3"
    /\ resp.body[1].id = "m3" /\ resp.body[3].id = "m1"

NormalizedFields ==
    {"id", "content", "timestamp", "author", "member", "attachments", "sticker_items",
     "mentions", "reactions", "referenced_message"}

\* C10: every output message has the same fields; attachments, sticker_items,
\* mentions and reactions are empty when absent upstream; each reaction is
\* {emoji, count, me}; member is null when absent; a referenced message is
\* projected to {id, author, content, mentions}, never with a
\* referenced_message of its own, and is null when absent.
C10_FixedFieldSet ==
    (resp.route = "getMessages" /\ resp.status = 200)
      => \A i \in DOMAIN resp.body :
           LET out == resp.body[i]
               msg == upstream.data[Len(upstream.data) + 1 - i]
           IN /\ DOMAIN out = NormalizedFields
              /\ \A f \in {"attachments", "sticker_items", "mentions"} :
                   out[f] = IF Has(msg, f) THEN msg[f] ELSE <<>>
              /\ IF Has(msg, "reactions")
                 THEN /\ Len(out.reactions) = Len(msg.reactions)
                      /\ \A j \in DOMAIN out.reactions :
                           /\ DOMAIN out.reactions[j] = {"emoji", "count", "me"}
                           /\ out.reactions[j].emoji = msg.reactions[j].emoji
                           /\ out.reactions[j].count = msg.reactions[j].count
                           /\ out.reactions[j].me = msg.reactions[j].me
                 ELSE out.reactions = <<>>
              /\ ~Has(msg, "member") => out.member = Null
              /\ IF Has(msg, "referenced_message")
                 THEN /\ DOMAIN out.referenced_message = {"id", "author", "content", "mentions"}
                      /\ out.referenced_message.id = msg.referenced_message.id
                      /\ out.referenced_message.content = msg.referenced_message.content
                 ELSE out.referenced_message = Null

C10_Witness ==
    /\ resp.route = "getMessages"
    /\ resp.status = 200
    /\ Len(upstream.data) = 1
    /\ Has(upstream.data[1], "referenced_message")
    /\ Has(upstream.data[1].referenced_message, "referenced_message")
    /\ Has(upstream.data[1].referenced_message.referenced_message, "referenced_message")
    /\ ~Has(upstream.data[1], "attachments")
    /\ Has(upstream.data[1], "reactions")
    /\ ~Has(upstream.data[1], "member")
    /\ resp.body[1].referenced_message # Null
    /\ resp.body[1].attachments = <<>>

====
